---- MODULE Spec2Model ----
(***************************************************************************)
(* BTI distributor sync (loamlabs-bti-sync).  The repository holds several *)
(* snapshots of one serverless handler (module.exports); the variable ver  *)
(* selects the snapshot whose code a run executes:                         *)
(*   "part_001"  src/unnamed/part_001  (inventory + price, markup, sleep)  *)
(*   "part_004"  src/unnamed/part_004  (inventory + price, price-sync      *)
(*               exclusion)                                                *)
(*   "index_2"   src/api/index.js, second snapshot (inventory only,        *)
(*               special-order action)                                     *)
(* The first snapshot of src/api/index.js works on products instead of     *)
(* variants; it is the specification ProductSpec, with ver = "index_1".    *)
(* Money is held in cents.  A decimal string is a record [c, dp2]: its     *)
(* value in cents and whether it is written with exactly two decimals      *)
(* ("12.50") or not ("12.5"); two strings are equal iff both fields are.   *)
(***************************************************************************)
EXTENDS Integers, Sequences, FiniteSets, TLC

VARIABLES
    ver,             \* snapshot of the handler that runs
    btiResponse,     \* outcome of fetch(BTI_FULL_DATA_URL): "none", "ok", "notOk", "rejected"
    feedRows,        \* rows of the distributor's CSV feed
    catalog,         \* the storefront: sequence of variants (changed by writes)
    pc,              \* position of the handler
    btiDataMap,      \* part number -> {available, cost, msrp}
    allVariants,     \* getAllShopifyVariants: accumulated nodes
    cursor,          \* getAllShopifyVariants: endCursor (items already paged)
    partialFetch,    \* getAllShopifyVariants left its loop by "break"
    shopifyVariants, \* the fetched snapshot the loop iterates over
    i,               \* loop index into shopifyVariants
    hasUpdateOccurred,
    changesMade,     \* [availability, pricing]: sequences of report entries
    inflight,        \* write calls dispatched and not yet settled
    trace,           \* events of this run: writes (with outcome) and pauses
    status,          \* HTTP status variable
    response,        \* status sent with res.status(..).send(..), 0 = none
    emails,          \* notifications handed to the mail service, in order
    error,           \* what was thrown into the catch block ("none" if nothing)
    prevRun,         \* how the previous invocation ended
    hist,            \* history: the storefront at the start of this run, and
                     \* what the previous invocation started from, read and wrote
    productsToUpdate \* index.js, first snapshot: the products grouped from the
                     \* variants, in insertion order

vars == <<ver, btiResponse, feedRows, catalog, pc, btiDataMap, allVariants, cursor,
          partialFetch, shopifyVariants, i, hasUpdateOccurred, changesMade,
          inflight, trace, status, response, emails, error, prevRun, hist, productsToUpdate>>

\* ---------------------------------------------------------------- bounds
MaxItems == 2
PageSize == 1

\* ---------------------------------------------------------------- values
Vers == {"part_001", "part_004", "index_2"}

Null == [c |-> -1, dp2 |-> TRUE]

\* Number.prototype.toFixed(2) of an amount of c cents
ToFixed2(c) == [c |-> c, dp2 |-> TRUE]

\* parseFloat(s).toFixed(2): the value is kept, the notation is normalised
ParseFloatToFixed2(s) == ToFixed2(s.c)

\* cents of num/den cents, rounded half up
Round2(num, den) == (2 * num + den) \div (2 * den)

\* (msrp * factor).toFixed(2) works on IEEE-754 doubles.  A product that is an
\* exact half-cent tie in decimal is a double just above or just below the tie,
\* and toFixed rounds the double.  DoubleBelowTie lists the pairs <<msrp in
\* cents, factor in percent>> with msrp up to 2.00 whose double product lies
\* below its tie: (1.15 * 1.1).toFixed(2) is "1.26", (0.5 * 0.99).toFixed(2)
\* is "0.49".
DoubleBelowTie ==
    {<<95, 110>>, <<115, 110>>, <<145, 110>>, <<165, 110>>, <<50, 99>>, <<150, 99>>}

\* cents of (m cents * f percent).toFixed(2)
MulToFixed2(m, f) ==
    IF (m * f) % 100 = 50 /\ <<m, f>> \in DoubleBelowTie
    THEN Round2(m * f, 100) - 1
    ELSE Round2(m * f, 100)

MakeUnavailable == "Make Unavailable (Track Inventory)"
SpecialOrder == "Switch to Special Order Template"
NoValue == "null"

NoData == [available |-> -1, cost |-> -1, msrp |-> -1, present |-> FALSE]

\* raw CSV text of a numeric column: a number (in units or cents) or other text
Txt(n) == [num |-> TRUE, v |-> n]
NotANumber == [num |-> FALSE, v |-> 0]

\* a parse that leaves a marker where the text holds no number
ParseOrMinusOne(raw) == IF raw.num THEN raw.v ELSE -1

\* parseInt(x, 10) || 0  and  parseFloat(x) || 0
ParseOrZero(raw) == IF raw.num THEN raw.v ELSE 0

\* a map in which the first row of an id stays
BuildMapFirstWins(rows) ==
    [key \in { rows[j].id : j \in DOMAIN rows } |->
        LET f == CHOOSE j \in DOMAIN rows :
                    rows[j].id = key /\ \A m \in 1 .. (j - 1) : rows[m].id # key
        IN [available |-> ParseOrZero(rows[f].available),
            cost |-> ParseOrZero(rows[f].your_price),
            msrp |-> ParseOrZero(rows[f].msrp),
            present |-> TRUE]]

\* new Map(records.map(r => [r.id, {...}])): a later row replaces an earlier one
RECURSIVE BuildMap(_)
BuildMap(rows) ==
    IF rows = <<>> THEN [k \in {} |-> NoData]
    ELSE LET r == rows[Len(rows)]
             rest == BuildMap(SubSeq(rows, 1, Len(rows) - 1))
             rec == [available |-> ParseOrZero(r.available),
                     cost |-> ParseOrZero(r.your_price),
                     msrp |-> ParseOrZero(r.msrp),
                     present |-> TRUE]
         IN [k \in DOMAIN rest \cup {r.id} |-> IF k = r.id THEN rec ELSE rest[k]]

\* btiDataMap.get(key): undefined (NoData) when the key is absent
MapGet(m, k) == IF k \in DOMAIN m THEN m[k] ELSE NoData

\* ------------------------------------------------- input domains (bounded)
Profiles == {
    [price |-> ToFixed2(9500),  compareAtPrice |-> Null,            unitCost |-> Null],
    [price |-> ToFixed2(9900),  compareAtPrice |-> ToFixed2(10000), unitCost |-> [c |-> 1250, dp2 |-> TRUE]],
    [price |-> ToFixed2(9900),  compareAtPrice |-> ToFixed2(10000), unitCost |-> [c |-> 1250, dp2 |-> FALSE]],
    [price |-> ToFixed2(11000), compareAtPrice |-> ToFixed2(11000), unitCost |-> [c |-> 1250, dp2 |-> TRUE]] }

SettledProfile == CHOOSE p \in Profiles : p.price.c = 9900 /\ p.unitCost.dp2

Variant(key, qty, pol, act, prof, adj, excl) ==
    [partKey |-> key, inventoryQuantity |-> qty, inventoryPolicy |-> pol,
     outOfStockAction |-> act, price |-> prof.price,
     compareAtPrice |-> prof.compareAtPrice, unitCost |-> prof.unitCost,
     priceAdjustmentPercentage |-> adj, excludeFromPriceSync |-> excl]

NoPct == -1

\* the JavaScript boolean true, as opposed to the string "true"
JsTrue == "boolean:true"

\* the fields each snapshot's GraphQL query reads vary; the others stay fixed
FullVariants(v) ==
    IF v = "part_001" THEN
        { Variant("A", q, p, a, pr, adj, NoValue) :
            q \in {0, 5}, p \in {"CONTINUE", "DENY"},
            a \in {NoValue, MakeUnavailable, SpecialOrder},
            pr \in Profiles, adj \in {NoPct, 10} }
    ELSE IF v = "part_004" THEN
        { Variant("A", q, p, a, pr, NoPct, e) :
            q \in {0, 5}, p \in {"CONTINUE", "DENY"},
            a \in {NoValue, MakeUnavailable, SpecialOrder},
            pr \in {x \in Profiles : x.price.c # 11000}, e \in {NoValue, "true", JsTrue} }
    ELSE
        { Variant("A", q, p, a, SettledProfile, NoPct, NoValue) :
            q \in {0, 5}, p \in {"CONTINUE", "DENY"},
            a \in {NoValue, MakeUnavailable, SpecialOrder} }

SmallVariants(v) ==
    { Variant("A", 0, p, NoValue, pr, NoPct, NoValue) :
        p \in {"CONTINUE", "DENY"},
        pr \in IF v = "index_2" THEN {SettledProfile}
               ELSE {x \in Profiles : x.price.c # 11000 /\ x.unitCost.dp2} }
    \cup { Variant("", 0, "CONTINUE", NoValue, SettledProfile, NoPct, NoValue) }

StaleProfile == CHOOSE p \in Profiles : p.price.c = 9500

\* two items of one part that differ in local stock only
StockTwins(v) ==
    LET pr == IF v = "index_2" THEN SettledProfile ELSE StaleProfile
    IN { << Variant("A", 0, "CONTINUE", NoValue, pr, NoPct, NoValue),
            Variant("A", 5, "CONTINUE", NoValue, pr, NoPct, NoValue) >> }

RECURSIVE SeqsOf(_, _)
SeqsOf(S, n) ==
    IF n = 0 THEN {<<>>}
    ELSE { Append(s, x) : s \in SeqsOf(S, n - 1), x \in S }

Row(avail, yourPrice, msrp) ==
    [id |-> "A", available |-> avail, your_price |-> yourPrice, msrp |-> msrp]

\* a row none of whose numeric columns holds a number
MalformedRow ==
    [id |-> "B", available |-> NotANumber, your_price |-> NotANumber,
     msrp |-> NotANumber]

FullFeeds(v) ==
    {<<>>} \cup
    { <<MalformedRow, Row(Txt(0), Txt(1250), Txt(10000))>> } \cup
    { <<Row(Txt(a), pm[1], pm[2])>> :
        a \in {0, 3},
        pm \in IF v = "index_2" THEN {<<Txt(1250), Txt(10000)>>}
               ELSE {<<Txt(1250), Txt(10000)>>, <<NotANumber, Txt(10000)>>,
                     <<Txt(1250), Txt(0)>>, <<Txt(1250), Txt(115)>>,
                     <<Txt(1250), Txt(5)>>} }

SmallFeeds == { <<Row(Txt(a), Txt(1250), Txt(10000))>> : a \in {0, 3} }

\* two rows of one part number that differ in stock and in msrp
DuplicateFeed ==
    << Row(Txt(3), Txt(1250), Txt(20000)), Row(Txt(0), Txt(1250), Txt(10000)) >>

Catalogs(v) ==
    [single : {TRUE}, items : SeqsOf(FullVariants(v), 1), feed : FullFeeds(v)]
    \cup
    [single : {FALSE},
     items : UNION { SeqsOf(SmallVariants(v), n) : n \in (0..MaxItems) \ {1} },
     feed : SmallFeeds]
    \cup
    [single : {FALSE}, items : StockTwins(v), feed : SmallFeeds \cup {DuplicateFeed}]

\* ------------------------------------------------------------------ Init
NoChanges == [availability |-> <<>>, pricing |-> <<>>]

\* module.exports entry: lines 5-10 of part_001 (30-35 of part_004)
Locals ==
    /\ pc = "fetchFeed"
    /\ btiResponse = "none"
    /\ btiDataMap = BuildMap(<<>>)
    /\ allVariants = <<>>
    /\ cursor = 0
    /\ partialFetch = FALSE
    /\ shopifyVariants = <<>>
    /\ i = 1
    /\ hasUpdateOccurred = FALSE
    /\ changesMade = NoChanges
    /\ inflight = {}
    /\ trace = <<>>
    /\ status = 200
    /\ response = 0
    /\ emails = <<>>
    /\ error = "none"
    /\ productsToUpdate = <<>>

NoPrev == [start |-> <<>>, items |-> <<>>, map |-> BuildMap(<<>>), writes |-> <<>>]

Init ==
    /\ ver \in Vers
    /\ \E w \in Catalogs(ver) : catalog = w.items /\ feedRows = w.feed
    /\ prevRun = "none"
    /\ hist = [start |-> catalog, prev |-> NoPrev]
    /\ Locals

\* ------------------------------------------------------------- decisions
\* a test that looks at the distributor's stock only
IsOutOfStockAtDistributor(variant, btiData) == btiData.available <= 0

\* part_001:42-43, part_004:61-62, index.js:271-273
IsTrulyOutOfStock(variant, btiData) ==
    variant.inventoryQuantity <= 0 /\ btiData.available <= 0

IsCurrentlySetToContinueSelling(variant) == variant.inventoryPolicy = "CONTINUE"

\* btiDataMap.get(key) as the loop uses it; index.js: btiStockMap.get(key) || 0
LookUp(v, m, variant) ==
    LET d == MapGet(m, variant.partKey)
    IN IF v = "index_2" /\ ~d.present
       THEN [available |-> 0, cost |-> 0, msrp |-> 0, present |-> TRUE]
       ELSE d

\* the inventory policy the availability logic writes, or "none"
PolicyWrite(v, variant, btiData) ==
    LET oos == IsTrulyOutOfStock(variant, btiData)
        cont == IsCurrentlySetToContinueSelling(variant)
        act == variant.outOfStockAction
        track == IF oos /\ cont THEN "DENY"
                 ELSE IF ~oos /\ ~cont THEN "CONTINUE"
                 ELSE "none"
    IN IF act = MakeUnavailable \/ act = NoValue THEN track
       ELSE IF v = "index_2" /\ act = SpecialOrder
            THEN (IF ~cont THEN "CONTINUE" ELSE "none")
       ELSE "none"

\* an exclusion that depends on how the previous invocation ended
ExcludedAfterKill(v, variant) == prevRun = "killed"

\* part_004:75: variant.product.excludeFromPriceSync?.value === true
IsPriceSyncExcluded(v, variant) ==
    v = "part_004" /\ variant.excludeFromPriceSync = JsTrue

\* pricing offered only to variants with no local stock
PricingEligibleWhenOut(v, variant, btiData) ==
    /\ v # "index_2"
    /\ ~IsPriceSyncExcluded(v, variant)
    /\ btiData.msrp > 0 /\ btiData.cost > 0
    /\ variant.inventoryQuantity <= 0

\* part_001:58, part_004:80
PricingEligible(v, variant, btiData) ==
    /\ v # "index_2"
    /\ ~IsPriceSyncExcluded(v, variant)
    /\ btiData.msrp > 0 /\ btiData.cost > 0

\* a price set to the msrp itself
NewPriceAtMsrp(v, variant, btiData) == ToFixed2(btiData.msrp)

\* part_001:59-69, part_004:81-87
NewPrice(v, variant, btiData) ==
    IF v = "part_001" /\ variant.priceAdjustmentPercentage # NoPct
    THEN ToFixed2(MulToFixed2(btiData.msrp, 100 + variant.priceAdjustmentPercentage))
    ELSE ToFixed2(MulToFixed2(btiData.msrp, 99))

NewCompareAtPrice(v, variant, btiData) ==
    IF v = "part_001" /\ variant.priceAdjustmentPercentage # NoPct
    THEN NewPrice(v, variant, btiData)
    ELSE ToFixed2(btiData.msrp)

NewCost(btiData) == ToFixed2(btiData.cost)

\* a stored cost taken as the string it is, in every snapshot
CurrentCostRaw(v, variant) == variant.unitCost

\* part_001:70 normalises the stored cost, part_004:84 takes the string as it is
CurrentCost(v, variant) ==
    IF variant.unitCost = Null THEN Null
    ELSE IF v = "part_001" THEN ParseFloatToFixed2(variant.unitCost)
    ELSE variant.unitCost

\* a pricing write issued without comparing
PricingAlways(v, variant, btiData) == TRUE

\* part_001:72, part_004:86
PricingChanged(v, variant, btiData) ==
    \/ NewPrice(v, variant, btiData) # variant.price
    \/ NewCompareAtPrice(v, variant, btiData) # variant.compareAtPrice
    \/ NewCost(btiData) # CurrentCost(v, variant)

PricingWrite(v, variant, btiData) ==
    PricingEligible(v, variant, btiData) /\ PricingChanged(v, variant, btiData)

\* ---------------------------------------------------------------- helpers
\* getAllShopifyVariants: the nodes of the page after `cursor`
PageAfter(cur) ==
    [k \in 1 .. (IF Len(catalog) - cur < PageSize THEN Len(catalog) - cur ELSE PageSize)
        |-> [node |-> catalog[cur + k], id |-> cur + k]]

\* a fetcher that returns every node it has read
AllNodes(nodes) == nodes

\* a fetcher that returns the keyed variants last-fetched first
KeyedReversed(nodes) ==
    LET keyed == SelectSeq(nodes, LAMBDA n : n.node.partKey # "")
    IN [k \in 1 .. Len(keyed) |-> keyed[Len(keyed) + 1 - k]]

\* part_004:151, index.js:369: keep the variants that carry a part number
RECURSIVE WithPartNumber(_)
WithPartNumber(nodes) ==
    IF nodes = <<>> THEN <<>>
    ELSE LET rest == WithPartNumber(SubSeq(nodes, 1, Len(nodes) - 1))
             n == nodes[Len(nodes)]
         IN IF n.node.partKey # "" THEN Append(rest, n) ELSE rest

\* the ways the promise of a write helper settles.
\* part_004:154-161 (REST put): resolves once applied, or rejects;
\* part_004:163-184 and index.js:372-393 (GraphQL mutation): a mutation answered
\* with userErrors resolves as well, nothing being applied.
WriteOutcomes(v, kind) ==
    IF (v = "part_004" /\ kind = "pricing") \/ v \in {"index_1", "index_2"}
    THEN {"applied", "userErrors", "transient", "permanent"}
    ELSE {"applied", "transient", "permanent"}

Rejects(res) == res \in {"transient", "permanent"}

\* a handler that threw only when fetch itself rejects
FeedThrowsOnReject(r) == r = "rejected"

\* a handler that goes on whatever the fetch gave
FeedNeverThrows(r) == FALSE

\* if (!btiResponse.ok) throw ...; a rejected fetch throws out of the await
FeedThrows(r) == r # "ok"

\* `await update...(...)`: the handler waits for the write to settle
PcAfterSettle(kind) == IF kind = "policy" THEN "afterPolicy" ELSE "afterPricing"

\* a call without await: the handler goes on while the write is in flight
PcWithoutAwait(kind) == PcAfterSettle(kind)

PcAfterDispatch(kind) == IF kind = "policy" THEN "awaitPolicy" ELSE "awaitPricing"

WriteEvent(kind, id, qty) ==
    [t |-> "write", kind |-> kind, id |-> id, res |-> "pending", tries |-> 1,
     localStock |-> qty]

SleepEvent(ms) ==
    [t |-> "sleep", kind |-> "none", id |-> 0, res |-> "none", tries |-> 0,
     localStock |-> ms]

CurVariant == shopifyVariants[i].node
CurData == LookUp(ver, btiDataMap, CurVariant)

\* the storefront after an applied write; the store chooses the notation of a
\* cost whose last decimal is zero ("12.50" or "12.5")
Stored(w, twoDp) ==
    IF w.kind = "policy"
    THEN [catalog EXCEPT ![w.id].inventoryPolicy = w.policy]
    ELSE [catalog EXCEPT ![w.id].price = w.price,
                         ![w.id].compareAtPrice = w.compareAtPrice,
                         ![w.id].unitCost = [c |-> w.cost.c, dp2 |-> twoDp]]

Notations(w) ==
    IF w.kind = "pricing" /\ w.cost.c % 10 = 0 THEN BOOLEAN ELSE {TRUE}

\* ---------------------------------------------------------------- actions
\* part_001:13-24: fetch and parse the feed
FetchFeed ==
    /\ pc = "fetchFeed"
    /\ \E r \in {"ok", "notOk", "rejected"} :
        /\ btiResponse' = r
        /\ IF FeedThrows(r)
           THEN /\ pc' = "catch"
                /\ error' = "feed"
                /\ UNCHANGED btiDataMap
           ELSE /\ pc' = "fetchCatalog"
                /\ btiDataMap' = BuildMap(IF r = "ok" THEN feedRows ELSE <<>>)
                /\ UNCHANGED error
    /\ UNCHANGED <<ver, feedRows, catalog, allVariants, cursor, partialFetch,
                   shopifyVariants, i, hasUpdateOccurred, changesMade, inflight,
                   trace, status, response, emails, prevRun, hist, productsToUpdate>>

\* part_004:140-152: one pass of the do-while loop of getAllShopifyVariants,
\* and its return when the loop ends
FetchPage ==
    /\ pc = "fetchCatalog"
    /\ \E r \in {"page", "noData", "rejected"} :
        CASE r = "rejected" ->
                /\ pc' = "catch"
                /\ error' = "catalog"
                /\ UNCHANGED <<allVariants, cursor, partialFetch, shopifyVariants>>
          [] r = "noData" ->
                /\ partialFetch' = (cursor < Len(catalog))
                /\ shopifyVariants' = WithPartNumber(allVariants)
                /\ pc' = "loop"
                /\ UNCHANGED <<allVariants, cursor, error>>
          [] r = "page" ->
                LET page == PageAfter(cursor)
                    all == allVariants \o page
                    hasNextPage == cursor + Len(page) < Len(catalog)
                IN /\ allVariants' = all
                   /\ cursor' = cursor + Len(page)
                   /\ IF hasNextPage
                      THEN UNCHANGED <<pc, shopifyVariants>>
                      ELSE /\ shopifyVariants' = WithPartNumber(all)
                           /\ pc' = "loop"
                   /\ UNCHANGED <<partialFetch, error>>
    /\ UNCHANGED <<ver, btiResponse, feedRows, catalog, btiDataMap, i,
                   hasUpdateOccurred, changesMade, inflight, trace, status,
                   response, emails, prevRun, hist, productsToUpdate>>

\* a loop that stays on the variant it has just processed
SameIndex(k) == k

\* for (const variant of shopifyVariants): the iterator moves to the next one
NextIndex(k) == k + 1

\* part_001:33-39: next variant of the for loop, or the end of the loop
LoopHead ==
    /\ pc = "loop"
    /\ IF i > Len(shopifyVariants)
       THEN /\ pc' = "report"
            /\ UNCHANGED <<i, hasUpdateOccurred>>
       ELSE IF ~CurData.present
       THEN /\ i' = NextIndex(i)
            /\ UNCHANGED <<pc, hasUpdateOccurred>>
       ELSE /\ pc' = "availability"
            /\ hasUpdateOccurred' = FALSE
            /\ UNCHANGED i
    /\ UNCHANGED <<ver, btiResponse, feedRows, catalog, btiDataMap, allVariants,
                   cursor, partialFetch, shopifyVariants, changesMade, inflight,
                   trace, status, response, emails, error, prevRun, hist, productsToUpdate>>

\* the call of a write helper: the request leaves for the storefront
Dispatch(w) ==
    /\ inflight' = inflight \cup {w}
    /\ trace' = Append(trace, WriteEvent(w.kind, w.id, CurVariant.inventoryQuantity))
    /\ pc' = PcAfterDispatch(w.kind)

\* part_001:41-55: availability logic
Availability ==
    /\ pc = "availability"
    /\ LET pol == PolicyWrite(ver, CurVariant, CurData)
       IN IF pol = "none"
          THEN /\ pc' = "pricing"
               /\ UNCHANGED <<inflight, trace>>
          ELSE Dispatch([pos |-> Len(trace) + 1, kind |-> "policy",
                         id |-> shopifyVariants[i].id, policy |-> pol,
                         price |-> Null, compareAtPrice |-> Null, cost |-> Null])
    /\ UNCHANGED <<ver, btiResponse, feedRows, catalog, btiDataMap, allVariants,
                   cursor, partialFetch, shopifyVariants, i, hasUpdateOccurred,
                   changesMade, status, response, emails, error, prevRun, hist, productsToUpdate>>

\* part_001:57-82, part_004:75-90: pricing logic
Pricing ==
    /\ pc = "pricing"
    /\ IF PricingWrite(ver, CurVariant, CurData)
       THEN Dispatch([pos |-> Len(trace) + 1, kind |-> "pricing",
                      id |-> shopifyVariants[i].id, policy |-> "none",
                      price |-> NewPrice(ver, CurVariant, CurData),
                      compareAtPrice |-> NewCompareAtPrice(ver, CurVariant, CurData),
                      cost |-> NewCost(CurData)])
       ELSE /\ pc' = "endIter"
            /\ UNCHANGED <<inflight, trace>>
    /\ UNCHANGED <<ver, btiResponse, feedRows, catalog, btiDataMap, allVariants,
                   cursor, partialFetch, shopifyVariants, i, hasUpdateOccurred,
                   changesMade, status, response, emails, error, prevRun, hist, productsToUpdate>>

\* the storefront answers a write; a handler awaiting it resumes, into the catch
\* block when the helper's promise rejects
Settle ==
    /\ \E w \in inflight : \E res \in WriteOutcomes(ver, w.kind) :
        \E twoDp \in (IF res = "applied" THEN Notations(w) ELSE {TRUE}) :
        /\ inflight' = inflight \ {w}
        /\ trace' = [trace EXCEPT ![w.pos].res = res]
        /\ catalog' = IF res = "applied" THEN Stored(w, twoDp) ELSE catalog
        /\ IF pc = PcAfterDispatch(w.kind)
           THEN IF Rejects(res)
                THEN pc' = "catch" /\ error' = "write"
                ELSE pc' = PcAfterSettle(w.kind) /\ UNCHANGED error
           ELSE UNCHANGED <<pc, error>>
    /\ UNCHANGED <<ver, btiResponse, feedRows, btiDataMap, allVariants, cursor,
                   partialFetch, shopifyVariants, i, hasUpdateOccurred,
                   changesMade, status, response, emails, prevRun, hist, productsToUpdate>>

\* part_001:48-49 / 52-53: record the availability change
AfterPolicy ==
    /\ pc = "afterPolicy"
    /\ changesMade' = [changesMade EXCEPT !.availability =
            Append(@, [id |-> shopifyVariants[i].id,
                       action |-> IF PolicyWrite(ver, CurVariant, CurData) = "DENY"
                                  THEN "Made Unavailable" ELSE "Made Available"])]
    /\ hasUpdateOccurred' = TRUE
    /\ pc' = "pricing"
    /\ UNCHANGED <<ver, btiResponse, feedRows, catalog, btiDataMap, allVariants,
                   cursor, partialFetch, shopifyVariants, i, inflight, trace,
                   status, response, emails, error, prevRun, hist, productsToUpdate>>

\* part_001:74-80: record the pricing change
AfterPricing ==
    /\ pc = "afterPricing"
    /\ changesMade' = [changesMade EXCEPT !.pricing =
            Append(@, [id |-> shopifyVariants[i].id,
                       newPrice |-> NewPrice(ver, CurVariant, CurData)])]
    /\ hasUpdateOccurred' = TRUE
    /\ pc' = "endIter"
    /\ UNCHANGED <<ver, btiResponse, feedRows, catalog, btiDataMap, allVariants,
                   cursor, partialFetch, shopifyVariants, i, inflight, trace,
                   status, response, emails, error, prevRun, hist, productsToUpdate>>

\* the pause of part_001:85-88; the other snapshots have none
SleepMs == 550

PausesAfter(v, updated) == v = "part_001" /\ updated

\* end of one pass of the for loop
EndIter ==
    /\ pc = "endIter"
    /\ trace' = IF PausesAfter(ver, hasUpdateOccurred)
                THEN Append(trace, SleepEvent(SleepMs)) ELSE trace
    /\ i' = NextIndex(i)
    /\ pc' = "loop"
    /\ UNCHANGED <<ver, btiResponse, feedRows, catalog, btiDataMap, allVariants,
                   cursor, partialFetch, shopifyVariants, hasUpdateOccurred,
                   changesMade, inflight, status, response, emails, error, prevRun, hist, productsToUpdate>>

\* a total that counts the availability changes only
TotalAvailabilityChanges == Len(changesMade.availability)

\* part_001:93, part_004:93, index.js:296
TotalChanges == Len(changesMade.availability) + Len(changesMade.pricing)

\* a send that is tried again when the mail service rejects it
PcRetrySummary(sent) == IF sent THEN "respond" ELSE "report"

\* `await resend.emails.send(...)` in the try block: a rejection is thrown
PcAfterSummary(sent) == IF sent THEN "respond" ELSE "catch"

\* part_001:93-124: the report; resend.emails.send may reject
Report ==
    /\ pc = "report"
    /\ IF TotalChanges > 0
       THEN \E sent \in BOOLEAN :
            /\ emails' = Append(emails, [kind |-> "summary", sent |-> sent])
            /\ pc' = PcAfterSummary(sent)
            /\ error' = IF sent THEN error ELSE "email"
       ELSE /\ pc' = "respond"
            /\ UNCHANGED <<emails, error>>
    /\ UNCHANGED <<ver, btiResponse, feedRows, catalog, btiDataMap, allVariants,
                   cursor, partialFetch, shopifyVariants, i, hasUpdateOccurred,
                   changesMade, inflight, trace, status, response, prevRun, hist, productsToUpdate>>

\* part_001:126-136: the catch block; a rejected send leaves the handler
Catch ==
    /\ pc = "catch"
    /\ status' = 500
    /\ \E sent \in BOOLEAN :
        /\ emails' = Append(emails, [kind |-> "failure", sent |-> sent])
        /\ pc' = IF sent THEN "respond" ELSE "crashed"
    /\ UNCHANGED <<ver, btiResponse, feedRows, catalog, btiDataMap, allVariants,
                   cursor, partialFetch, shopifyVariants, i, hasUpdateOccurred,
                   changesMade, inflight, trace, response, error, prevRun, hist, productsToUpdate>>

\* part_001:139: res.status(status).send(message)
Respond ==
    /\ pc = "respond"
    /\ response' = status
    /\ pc' = "done"
    /\ UNCHANGED <<ver, btiResponse, feedRows, catalog, btiDataMap, allVariants,
                   cursor, partialFetch, shopifyVariants, i, hasUpdateOccurred,
                   changesMade, inflight, trace, status, emails, error, prevRun, hist, productsToUpdate>>

AllApplied ==
    \A k \in 1 .. Len(trace) : trace[k].t = "write" => trace[k].res = "applied"

\* the handler is in its loop and waits: for a write to settle, or in the
\* pause at the end of a pass
AtAwaitInLoop == pc \in {"awaitPolicy", "awaitPricing", "endIter"}

\* the platform ends the invocation while the loop runs (the function is
\* stopped at its time limit): the handler takes no further step; a request
\* that has left for the storefront is still answered there.  The model
\* follows the histories in which the first invocation is the one stopped.
Kill ==
    /\ AtAwaitInLoop
    /\ prevRun = "none"
    /\ pc' = "killed"
    /\ UNCHANGED <<ver, btiResponse, feedRows, catalog, btiDataMap, allVariants,
                   cursor, partialFetch, shopifyVariants, i, hasUpdateOccurred,
                   changesMade, inflight, trace, status, response, emails, error,
                   prevRun, hist, productsToUpdate>>

\* the writes of a run, in dispatch order, with their outcome
RECURSIVE WritesOf(_)
WritesOf(tr) ==
    IF tr = <<>> THEN <<>>
    ELSE LET rest == WritesOf(SubSeq(tr, 1, Len(tr) - 1))
             e == tr[Len(tr)]
         IN IF e.t = "write"
            THEN Append(rest, [kind |-> e.kind, id |-> e.id,
                               applied |-> e.res = "applied"])
            ELSE rest

\* the next scheduled invocation: nothing but the storefront is carried over
NextRun ==
    /\ pc \in {"done", "crashed", "killed"}
    /\ inflight = {}
    /\ prevRun' = IF pc = "killed" THEN "killed"
                  ELSE IF pc = "done" /\ response = 200 /\ ~partialFetch /\ AllApplied
                  THEN "clean" ELSE "other"
    /\ hist' = [start |-> catalog,
                prev |-> IF pc = "killed"
                         THEN [start |-> hist.start, items |-> shopifyVariants,
                               map |-> btiDataMap, writes |-> WritesOf(trace)]
                         ELSE NoPrev]
    /\ pc' = "fetchFeed"
    /\ btiResponse' = "none"
    /\ btiDataMap' = BuildMap(<<>>)
    /\ allVariants' = <<>>
    /\ cursor' = 0
    /\ partialFetch' = FALSE
    /\ shopifyVariants' = <<>>
    /\ i' = 1
    /\ hasUpdateOccurred' = FALSE
    /\ changesMade' = NoChanges
    /\ trace' = <<>>
    /\ status' = 200
    /\ response' = 0
    /\ emails' = <<>>
    /\ error' = "none"
    /\ UNCHANGED <<ver, feedRows, catalog, inflight, productsToUpdate>>

Next ==
    \/ FetchFeed
    \/ FetchPage
    \/ LoopHead
    \/ Availability
    \/ Pricing
    \/ Settle
    \/ AfterPolicy
    \/ AfterPricing
    \/ EndIter
    \/ Report
    \/ Catch
    \/ Respond
    \/ Kill
    \/ NextRun

Spec == Init /\ [][Next]_vars

\* one invocation left to run to its end: the handler's own steps and the
\* answers of the storefront and of the mail service
InvocationNext ==
    \/ FetchFeed
    \/ FetchPage
    \/ LoopHead
    \/ Availability
    \/ Pricing
    \/ Settle
    \/ AfterPolicy
    \/ AfterPricing
    \/ EndIter
    \/ Report
    \/ Catch
    \/ Respond

\* the event loop runs every continuation that is ready, and every request
\* is answered or fails: a step that can be taken is taken
LiveSpec == Init /\ [][InvocationNext]_vars /\ WF_vars(InvocationNext)

\* ---------------------------------- product-level sync (index.js, lines 1-210)
SetToDraft == "Set to Draft"
SpecialOrderSuffix == "special-order"

ProductVariant(key, qty, pid, prod) ==
    [partKey |-> key, inventoryQuantity |-> qty, productId |-> pid,
     status |-> prod.status, templateSuffix |-> prod.templateSuffix,
     outOfStockAction |-> prod.outOfStockAction]

\* input domains: two products; part "B" is not in the feed
ProductStates(pid) ==
    IF pid = 1
    THEN [status : {"ACTIVE", "DRAFT"}, templateSuffix : {NoValue, SpecialOrderSuffix},
          outOfStockAction : {NoValue, SetToDraft, SpecialOrder}]
    ELSE { [status |-> "ACTIVE", templateSuffix |-> NoValue, outOfStockAction |-> NoValue],
           [status |-> "DRAFT", templateSuffix |-> SpecialOrderSuffix,
            outOfStockAction |-> SpecialOrder] }

VariantShapes ==
    { [pid |-> pid, qty |-> sk[1], key |-> sk[2]] :
        pid \in {1, 2}, sk \in {<<0, "A">>, <<5, "A">>, <<0, "B">>} }

ProductCatalogs ==
    { [k \in 1 .. Len(sh) |-> ProductVariant(sh[k].key, sh[k].qty, sh[k].pid, st[sh[k].pid])] :
        sh \in UNION { SeqsOf(VariantShapes, n) : n \in 0 .. MaxItems },
        st \in { f \in [{1, 2} -> ProductStates(1) \cup ProductStates(2)] :
                    f[1] \in ProductStates(1) /\ f[2] \in ProductStates(2) } }

ProductInit ==
    /\ ver = "index_1"
    /\ catalog \in ProductCatalogs
    /\ feedRows \in SmallFeeds
    /\ prevRun = "none"
    /\ hist = [start |-> catalog, prev |-> NoPrev]
    /\ Locals

\* index.js:138-180: one pass of the do-while loop of getAllShopifyVariants;
\* a response without data throws at response.body.data.productVariants
FetchAllPage ==
    /\ pc = "fetchCatalog"
    /\ \E r \in {"page", "noData", "rejected"} :
        IF r = "page"
        THEN LET page == PageAfter(cursor)
                 all == allVariants \o page
                 hasNextPage == cursor + Len(page) < Len(catalog)
             IN /\ allVariants' = all
                /\ cursor' = cursor + Len(page)
                /\ IF hasNextPage
                   THEN UNCHANGED <<pc, shopifyVariants>>
                   ELSE shopifyVariants' = all /\ pc' = "loop"
                /\ UNCHANGED error
        ELSE /\ pc' = "catch"
             /\ error' = "catalog"
             /\ UNCHANGED <<allVariants, cursor, shopifyVariants>>
    /\ UNCHANGED <<ver, btiResponse, feedRows, catalog, btiDataMap, partialFetch, i,
                   hasUpdateOccurred, changesMade, inflight, trace, status,
                   response, emails, prevRun, hist, productsToUpdate>>

\* index.js:64: btiStockMap.get(btiPartNumber) || 0
BtiStock(m, key) == IF key \in DOMAIN m THEN m[key].available ELSE 0

\* index.js:67-68
IsOutOfStock(m, variant) ==
    variant.inventoryQuantity <= 0 /\ BtiStock(m, variant.partKey) <= 0

\* index.js:68: variant.product.outOfStockAction?.value || 'Set to Draft'
ActionOf(variant) ==
    IF variant.outOfStockAction = NoValue THEN SetToDraft ELSE variant.outOfStockAction

\* index.js:71-79: productsToUpdate.set(...) on first sight, then variants.push
Grouped(products, variant, out) ==
    IF \E k \in 1 .. Len(products) : products[k].productId = variant.productId
    THEN [k \in 1 .. Len(products) |->
            IF products[k].productId = variant.productId
            THEN [products[k] EXCEPT !.variants = Append(@, out)]
            ELSE products[k]]
    ELSE Append(products,
                [productId |-> variant.productId,
                 isCurrentlyActive |-> variant.status = "ACTIVE",
                 isCurrentlySpecialOrder |-> variant.templateSuffix = SpecialOrderSuffix,
                 variants |-> <<out>>,
                 action |-> ActionOf(variant)])

\* index.js:62-80: one pass of the grouping loop, or its end
GroupVariant ==
    /\ pc = "loop"
    /\ IF i > Len(shopifyVariants)
       THEN /\ pc' = "execute"
            /\ i' = 1
            /\ UNCHANGED productsToUpdate
       ELSE /\ productsToUpdate' =
                    Grouped(productsToUpdate, CurVariant, IsOutOfStock(btiDataMap, CurVariant))
            /\ i' = NextIndex(i)
            /\ UNCHANGED pc
    /\ UNCHANGED <<ver, btiResponse, feedRows, catalog, btiDataMap, allVariants,
                   cursor, partialFetch, shopifyVariants, hasUpdateOccurred,
                   changesMade, inflight, trace, status, response, emails, error,
                   prevRun, hist>>

\* a product taken down as soon as one of its variants is out of stock
SomeOutOfStock(variants) == \E k \in 1 .. Len(variants) : variants[k]

\* index.js:85: data.variants.every(v => v.isOutOfStock)
ShouldBeUnavailable(variants) == \A k \in 1 .. Len(variants) : variants[k]

ProductWriteEvent(kind, id, value) ==
    [t |-> "write", kind |-> kind, id |-> id, res |-> "pending", tries |-> 1,
     localStock |-> 0, value |-> value]

\* await updateProductStatus(..) / updateProductTemplate(..): the request leaves
ProductDispatch(kind, id, value, awaitPc) ==
    /\ inflight' = inflight \cup {[pos |-> Len(trace) + 1, kind |-> kind, id |-> id,
                                   value |-> value]}
    /\ trace' = Append(trace, ProductWriteEvent(kind, id, value))
    /\ pc' = awaitPc

\* index.js:83-98: next product of the loop; the branch for a product all of
\* whose variants are out of stock, and the first test of the other branch
ExecuteHead ==
    /\ pc = "execute"
    /\ IF i > Len(productsToUpdate)
       THEN pc' = "respond" /\ UNCHANGED <<inflight, trace>>
       ELSE LET data == productsToUpdate[i]
            IN IF ShouldBeUnavailable(data.variants)
               THEN IF data.action = SpecialOrder
                    THEN IF ~data.isCurrentlySpecialOrder
                         THEN ProductDispatch("template", data.productId,
                                              SpecialOrderSuffix, "awaitUnavailable")
                         ELSE pc' = "nextProduct" /\ UNCHANGED <<inflight, trace>>
                    ELSE IF data.isCurrentlyActive
                         THEN ProductDispatch("status", data.productId, "DRAFT",
                                              "awaitUnavailable")
                         ELSE pc' = "nextProduct" /\ UNCHANGED <<inflight, trace>>
               ELSE IF ~data.isCurrentlyActive
                    THEN ProductDispatch("status", data.productId, "ACTIVE",
                                         "awaitActivate")
                    ELSE pc' = "revert" /\ UNCHANGED <<inflight, trace>>
    /\ UNCHANGED <<ver, btiResponse, feedRows, catalog, btiDataMap, allVariants,
                   cursor, partialFetch, shopifyVariants, i, hasUpdateOccurred,
                   changesMade, status, response, emails, error, prevRun, hist,
                   productsToUpdate>>

\* index.js:103-106: the second test of the in-stock branch
Revert ==
    /\ pc = "revert"
    /\ IF productsToUpdate[i].isCurrentlySpecialOrder
       THEN ProductDispatch("template", productsToUpdate[i].productId, NoValue,
                            "awaitRevert")
       ELSE pc' = "nextProduct" /\ UNCHANGED <<inflight, trace>>
    /\ UNCHANGED <<ver, btiResponse, feedRows, catalog, btiDataMap, allVariants,
                   cursor, partialFetch, shopifyVariants, i, hasUpdateOccurred,
                   changesMade, status, response, emails, error, prevRun, hist,
                   productsToUpdate>>

\* the storefront after an applied product update: every variant of the
\* product shows the product's new state
ProductStored(w) ==
    [k \in 1 .. Len(catalog) |->
        IF catalog[k].productId # w.id THEN catalog[k]
        ELSE IF w.kind = "status" THEN [catalog[k] EXCEPT !.status = w.value]
        ELSE [catalog[k] EXCEPT !.templateSuffix = w.value]]

\* index.js:182-200: the mutation is answered; client.query rejects on a
\* failed request, and resolves on an answer that carries userErrors
ProductSettle ==
    /\ \E w \in inflight : \E res \in WriteOutcomes(ver, w.kind) :
        /\ inflight' = inflight \ {w}
        /\ trace' = [trace EXCEPT ![w.pos].res = res]
        /\ catalog' = IF res = "applied" THEN ProductStored(w) ELSE catalog
        /\ IF Rejects(res)
           THEN pc' = "catch" /\ error' = "write"
           ELSE /\ pc' = IF pc = "awaitActivate" THEN "revert" ELSE "nextProduct"
                /\ UNCHANGED error
    /\ UNCHANGED <<ver, btiResponse, feedRows, btiDataMap, allVariants, cursor,
                   partialFetch, shopifyVariants, i, hasUpdateOccurred,
                   changesMade, status, response, emails, prevRun, hist,
                   productsToUpdate>>

\* index.js:84: the iterator of productsToUpdate.entries() moves on
NextProduct ==
    /\ pc = "nextProduct"
    /\ i' = NextIndex(i)
    /\ pc' = "execute"
    /\ UNCHANGED <<ver, btiResponse, feedRows, catalog, btiDataMap, allVariants,
                   cursor, partialFetch, shopifyVariants, hasUpdateOccurred,
                   changesMade, inflight, trace, status, response, emails, error,
                   prevRun, hist, productsToUpdate>>

\* index.js:36-133; the catch block and the response are those of the other
\* snapshots (index.js:114-129 and 133)
ProductNext ==
    \/ FetchFeed
    \/ FetchAllPage
    \/ GroupVariant
    \/ ExecuteHead
    \/ Revert
    \/ ProductSettle
    \/ NextProduct
    \/ Catch
    \/ Respond

ProductSpec == ProductInit /\ [][ProductNext]_vars

\* ----------------------------------------------------------------- claims
WriteEvents == { k \in 1 .. Len(trace) : trace[k].t = "write" }

FailedWrites == { k \in WriteEvents : Rejects(trace[k].res) }

AppliedWrites == { k \in WriteEvents : trace[k].res = "applied" }

Sent(kind) == { k \in 1 .. Len(emails) : emails[k].kind = kind }

LoopFinished == i > Len(shopifyVariants)

\* C1: partial-failure isolation.  When the write of an intent has failed, the
\* loop still goes over all remaining variants: a run that has answered after a
\* failed write has processed every fetched variant.
C1_PartialFailureIsolation ==
    (pc = "done" /\ FailedWrites # {}) => LoopFinished

\* C2: local-stock precedence.  No inventory-policy write is issued for a
\* variant whose local stock is positive.
C2_LocalStockPrecedence ==
    \A k \in WriteEvents : trace[k].kind = "policy" => trace[k].localStock <= 0

\* C3: idempotence.  A run that follows a run whose intents were all applied
\* (same feed, complete catalog) issues no write at all.
C3_Idempotence ==
    prevRun = "clean" => WriteEvents = {}

\* C4: a failed feed fetch is fatal.  From the failure on the handler is in its
\* catch path: no write is ever dispatched and no summary is sent; the failure
\* notification is handed to the mail service exactly once, and the response
\* that follows it is HTTP 500.
C4_FeedFailureIsFatal ==
    btiResponse \in {"notOk", "rejected"} =>
        /\ WriteEvents = {} /\ inflight = {}
        /\ Sent("summary") = {}
        /\ pc \in {"catch", "respond", "done", "crashed"}
        /\ error = "feed"
        /\ pc # "catch" => Cardinality(Sent("failure")) = 1
        /\ pc \in {"respond", "done"} => status = 500 /\ emails[1].sent
        /\ pc = "done" => response = 500

C4_Witness ==
    /\ btiResponse = "notOk" /\ pc = "done" /\ response = 500
    /\ emails = <<[kind |-> "failure", sent |-> TRUE]>>
    /\ Len(catalog) > 0

\* C5: a fatal outcome is a setup-phase failure only.  A run that answers HTTP
\* 500 has applied no catalog write.
C5_FatalOnlyInSetup ==
    (pc = "done" /\ response = 500) => AppliedWrites = {}

\* C6: a per-intent write failure never makes the run fatal.  A run whose only
\* failure is a failed write answers HTTP 200 and sends no failure notification.
C6_WriteFailureNotFatal ==
    (pc = "done" /\ error = "write") => (response = 200 /\ Sent("failure") = {})

\* C7: the executor is strictly sequential.  At most one write is in flight;
\* while a write is in flight every earlier write of the run has settled and
\* its outcome is recorded in changesMade; nothing is pending that is not in
\* flight.
C7_SequentialExecutor ==
    /\ Cardinality(inflight) <= 1
    /\ \A k \in WriteEvents :
         trace[k].res = "pending" => \E w \in inflight : w.pos = k
    /\ \A w \in inflight :
         /\ \A k \in WriteEvents : k < w.pos => trace[k].res \in {"applied", "userErrors"}
         /\ TotalChanges = Cardinality({ k \in WriteEvents : k < w.pos })

C7_Witness ==
    \E w \in inflight : \E k \in AppliedWrites : k < w.pos

\* C8: sequential pacing.  In the snapshot that paces its writes, every write
\* after the first is preceded by a pause: between the writes of two successive
\* intents there is a 550ms sleep.
C8_PauseBetweenIntents ==
    ver = "part_001" =>
        \A k \in WriteEvents : k > 1 =>
            (trace[k - 1].t = "sleep" /\ trace[k - 1].localStock = SleepMs)

\* C9: bounded retry.  A write is given up on a transient failure only after
\* three attempts.
C9_BoundedRetry ==
    \A k \in WriteEvents : trace[k].res = "transient" => trace[k].tries = 3

\* C10: a non-retryable write failure is attempted once, recorded, and the run
\* continues with the next intent (and so ends as a completed run).
C10_NonRetryableFailsOnce ==
    \A k \in WriteEvents : trace[k].res = "permanent" =>
        /\ trace[k].tries = 1
        /\ pc = "done" => (LoopFinished /\ response = 200)

\* ------------------------------------------------- claims on the decisions
\* the variant of the current pass of the loop has been through the
\* availability logic (the pass has not been left by a throw)
PastAvailability ==
    pc \in {"awaitPolicy", "afterPolicy", "pricing", "awaitPricing",
            "afterPricing", "endIter"}

PastPricing == pc \in {"awaitPricing", "afterPricing", "endIter"}

CurId == shopifyVariants[i].id

CurMatched == CurVariant.partKey \in DOMAIN btiDataMap

CurFeed == btiDataMap[CurVariant.partKey]

PolicyEventsFor(id) ==
    { k \in WriteEvents : trace[k].kind = "policy" /\ trace[k].id = id }

PricingEventsFor(id) ==
    { k \in WriteEvents : trace[k].kind = "pricing" /\ trace[k].id = id }

PolicyInFlight == { w \in inflight : w.kind = "policy" }

PricingInFlight == { w \in inflight : w.kind = "pricing" }

\* the sellability intent the BLOCK policy asks for
BlockTarget(localStock, availableQty, policy) ==
    LET isOutOfStock == localStock <= 0 /\ availableQty <= 0
    IN IF isOutOfStock /\ policy = "CONTINUE" THEN "DENY"
       ELSE IF ~isOutOfStock /\ policy = "DENY" THEN "CONTINUE"
       ELSE "none"

C12_SpecialOrderSellability ==
    (PastAvailability /\ CurMatched /\ CurVariant.outOfStockAction = SpecialOrder) =>
        /\ (PolicyEventsFor(CurId) # {}) <=> (CurVariant.inventoryPolicy # "CONTINUE")
        /\ \A w \in PolicyInFlight : w.policy = "CONTINUE"

\* the catalog item a write of this run addresses
ItemOf(k) == catalog[trace[k].id]

\* C13: unmatched items.  No write of either kind is issued for a variant whose
\* part number has no record in the feed, and such a variant does not send the
\* run into its catch block.
C13_UnmatchedNoIntent ==
    /\ \A k \in WriteEvents : ItemOf(k).partKey \in DOMAIN btiDataMap
    /\ (\A k \in 1 .. Len(shopifyVariants) :
            shopifyVariants[k].node.partKey \notin DOMAIN btiDataMap)
        => error \notin {"write"}

\* the price-sync exclusion as the storefront holds it: the metafield is true
ExcludedFromPriceSync(item) == item.excludeFromPriceSync \in {"true", JsTrue}

\* C14: pricing is skipped entirely for a variant that is excluded from price
\* sync, or whose feed msrp is not positive, or whose feed cost is not
\* positive: no pricing write is issued for it.
C14_PricingSkipped ==
    \A k \in WriteEvents : trace[k].kind = "pricing" =>
        LET d == MapGet(btiDataMap, ItemOf(k).partKey)
        IN /\ ~ExcludedFromPriceSync(ItemOf(k))
           /\ d.msrp > 0
           /\ d.cost > 0

\* some target differs in value (in cents) from what the variant holds
ValueDiffers(v, variant, btiData) ==
    \/ NewPrice(v, variant, btiData).c # variant.price.c
    \/ NewCompareAtPrice(v, variant, btiData).c # variant.compareAtPrice.c
    \/ NewCost(btiData).c # variant.unitCost.c

\* C15: a pricing write is issued for an eligible matched variant if and only
\* if one of target price, compare-at price and cost differs from the current
\* value once both are normalised to two decimals; a cost held as "12.5"
\* against a target "12.50" gives no write.
C15_PricingIffValueDiffers ==
    (PastPricing /\ ver # "index_2" /\ CurMatched
        /\ ~ExcludedFromPriceSync(CurVariant)
        /\ CurFeed.msrp > 0 /\ CurFeed.cost > 0) =>
        ((PricingEventsFor(CurId) # {}) <=> ValueDiffers(ver, CurVariant, CurFeed))

HasMarkup(variant) == ver = "part_001" /\ variant.priceAdjustmentPercentage # NoPct

\* C16: markup pricing.  For a variant with a price adjustment percentage the
\* price written and the compare-at price written are equal, and both are
\* msrp * (1 + pct/100) rounded half up to two decimals.
C16_MarkupPricing ==
    \A w \in PricingInFlight :
        (pc = "awaitPricing" /\ HasMarkup(CurVariant)) =>
            /\ w.price = w.compareAtPrice
            /\ w.price.c = Round2(CurFeed.msrp * (100 + CurVariant.priceAdjustmentPercentage), 100)
            /\ w.price.dp2

\* x is y/100 rounded to a nearest integer
IsRounded(x, y) == 100 * x - y <= 50 /\ y - 100 * x <= 50

\* what default pricing computes: 99% of the msrp, the msrp and the cost, each
\* with two decimals
DefaultTargets(w) ==
    /\ IsRounded(w.price.c, CurFeed.msrp * 99)
    /\ w.compareAtPrice = ToFixed2(CurFeed.msrp)
    /\ w.cost = ToFixed2(CurFeed.cost)
    /\ w.price.dp2

\* C17 as stated: default pricing writes msrp * 0.99, msrp and the cost rounded
\* to two decimals, and the price written is strictly below the compare-at
\* price written.
C17_DefaultPricingStrictDiscount ==
    \A w \in PricingInFlight :
        (pc = "awaitPricing" /\ ~HasMarkup(CurVariant)) =>
            (DefaultTargets(w) /\ w.price.c < w.compareAtPrice.c)

\* C17: default pricing writes msrp * 0.99, msrp and the cost rounded to two
\* decimals; the price written is never above the compare-at price written,
\* and strictly below it when the msrp is above 0.50.
C17_DefaultPricing ==
    \A w \in PricingInFlight :
        (pc = "awaitPricing" /\ ~HasMarkup(CurVariant)) =>
            /\ DefaultTargets(w)
            /\ w.price.c <= w.compareAtPrice.c
            /\ CurFeed.msrp > 50 => w.price.c < w.compareAtPrice.c

C17_Witness ==
    /\ pc = "awaitPricing" /\ ~HasMarkup(CurVariant)
    /\ \E w \in PricingInFlight :
        w.price.c = 9900 /\ w.compareAtPrice.c = 10000 /\ w.cost.c = 1250

\* ------------------------------------------ claims on fetching and reporting
\* C18: a catalog read that does not complete is fatal.  When the paginated
\* read was left before the last page, no write is ever dispatched, the
\* handler does not reconcile the variants it did read, and the run answers
\* HTTP 500 after a failure notification.
C18_CatalogFailureIsFatal ==
    partialFetch =>
        /\ WriteEvents = {}
        /\ pc \notin {"availability", "pricing", "report"}
        /\ pc = "done" => (response = 500 /\ Sent("failure") # {})

\* C19: silent success.  A run that answers HTTP 200 has sent the summary
\* notification if and only if it attempted at least one write; a run that
\* attempted none has handed nothing to the mail service.
C19_SilentSuccess ==
    (pc = "done" /\ response = 200) =>
        /\ (\E k \in Sent("summary") : emails[k].sent) <=> (WriteEvents # {})
        /\ WriteEvents = {} => emails = <<>>

C19_Witness ==
    /\ pc = "done" /\ response = 200
    /\ emails = <<[kind |-> "summary", sent |-> TRUE]>>
    /\ \E k \in WriteEvents : trace[k].kind = "pricing"

\* C20: in every run the summary notification is handed to the mail service at
\* most once and the failure notification at most once.
C20_AtMostOnceEach ==
    /\ Cardinality(Sent("summary")) <= 1
    /\ Cardinality(Sent("failure")) <= 1

C20_Witness ==
    /\ Cardinality(Sent("summary")) = 1
    /\ Cardinality(Sent("failure")) = 1
    /\ pc = "done"

\* ------------------------------------------- claims on the run as a whole
\* a fatal error: the feed or the catalog could not be fetched
FatalError == error \in {"feed", "catalog"}

PhaseOf(p) ==
    CASE p = "fetchFeed" -> 1
      [] p = "fetchCatalog" -> 2
      [] p \in {"loop", "availability", "pricing", "awaitPolicy", "awaitPricing",
                "afterPolicy", "afterPricing", "endIter"} -> 3
      [] p = "report" -> 4
      [] OTHER -> 5

\* C22: phase order.  A write is dispatched only in the loop phase, after the
\* feed fetch and the catalog fetch have both returned; once a notification has
\* been handed to the mail service the loop is over, nothing is in flight and
\* no write follows.
C22_PhaseOrder ==
    /\ (WriteEvents # {} \/ inflight # {}) =>
            (btiResponse = "ok" /\ PhaseOf(pc) >= 3)
    /\ PhaseOf(pc) <= 2 => (trace = <<>> /\ emails = <<>> /\ i = 1)
    /\ PhaseOf(pc) = 1 => (allVariants = <<>> /\ cursor = 0)
    /\ PhaseOf(pc) >= 3 => allVariants = SubSeq(allVariants, 1, cursor)
    /\ emails # <<>> =>
            (PhaseOf(pc) >= 4 /\ \A k \in WriteEvents : trace[k].res # "pending")

C22_Witness ==
    /\ pc = "done" /\ response = 200
    /\ AppliedWrites # {}
    /\ Sent("summary") # {}

\* the ids of the writes of one kind, in dispatch order
RECURSIVE DispatchedIds(_, _)
DispatchedIds(tr, kind) ==
    IF tr = <<>> THEN <<>>
    ELSE LET rest == DispatchedIds(SubSeq(tr, 1, Len(tr) - 1), kind)
             e == tr[Len(tr)]
         IN IF e.t = "write" /\ e.kind = kind THEN Append(rest, e.id) ELSE rest

LoggedIds(log) == [k \in 1 .. Len(log) |-> log[k].id]

\* C23: outcome log.  Once the loop has been left, every write that was
\* dispatched has exactly one entry in the log of changes, in dispatch order,
\* and the log has no entry for a write that was not dispatched.
C23_OutcomeLog ==
    PhaseOf(pc) >= 4 =>
        /\ LoggedIds(changesMade.availability) = DispatchedIds(trace, "policy")
        /\ LoggedIds(changesMade.pricing) = DispatchedIds(trace, "pricing")

\* ------------------------------------------------- claims across two runs
\* the item an uninterrupted run whose writes are all applied leaves behind
ExpectedItem(v, item, map) ==
    LET d == LookUp(v, map, item)
    IN IF item.partKey = "" \/ ~d.present THEN item
       ELSE LET pol == PolicyWrite(v, item, d)
                it == IF pol = "none" THEN item
                      ELSE [item EXCEPT !.inventoryPolicy = pol]
            IN IF PricingWrite(v, item, d)
               THEN [it EXCEPT !.price = NewPrice(v, item, d),
                               !.compareAtPrice = NewCompareAtPrice(v, item, d),
                               !.unitCost = NewCost(d)]
               ELSE it

\* two items hold the same values (the notation of an amount set aside)
SameValues(a, b) ==
    /\ a.inventoryPolicy = b.inventoryPolicy
    /\ a.price.c = b.price.c
    /\ a.compareAtPrice.c = b.compareAtPrice.c
    /\ a.unitCost.c = b.unitCost.c

AppliedBefore(kind, id) ==
    \E j \in 1 .. Len(hist.prev.writes) :
        /\ hist.prev.writes[j].applied
        /\ hist.prev.writes[j].kind = kind
        /\ hist.prev.writes[j].id = id

CompleteRun == pc = "done" /\ response = 200 /\ ~partialFetch /\ AllApplied

\* C24: safe resume (part_001).  In the run that follows a killed run, no
\* write is issued again that the killed run had already applied, and when that
\* run completes with all its writes applied the storefront holds what one
\* uninterrupted run from the killed run's starting state would have left.
C24_SafeResume ==
    (ver = "part_001" /\ prevRun = "killed") =>
        /\ \A k \in WriteEvents : ~AppliedBefore(trace[k].kind, trace[k].id)
        /\ CompleteRun =>
             \A k \in 1 .. Len(catalog) :
                SameValues(catalog[k], ExpectedItem(ver, hist.prev.start[k], btiDataMap))

C24_Witness ==
    /\ ver = "part_001" /\ prevRun = "killed" /\ CompleteRun
    /\ AppliedBefore("pricing", 1)
    /\ catalog[1].unitCost = [c |-> 1250, dp2 |-> FALSE]
    /\ catalog # hist.prev.start

\* C25: no no-op writes (part_001).  A policy write in flight sets a policy
\* other than the one the fetched variant has, and a pricing write in flight
\* sets a price, compare-at price or cost that differs in value from what the
\* fetched variant holds.
C25_NoNoOpWrites ==
    (ver = "part_001" /\ pc \in {"awaitPolicy", "awaitPricing"}) =>
        \A w \in inflight :
            /\ w.kind = "policy" => w.policy # CurVariant.inventoryPolicy
            /\ w.kind = "pricing" =>
                \/ w.price.c # CurVariant.price.c
                \/ w.compareAtPrice.c # CurVariant.compareAtPrice.c
                \/ w.cost.c # CurVariant.unitCost.c

C25_Witness ==
    /\ ver = "part_001" /\ pc = "awaitPricing"
    /\ \E w \in PricingInFlight :
        /\ w.cost.c = CurVariant.unitCost.c
        /\ w.price.c # CurVariant.price.c

\* ----------------------------------------------- claims on intents and feed
\* C26: at most two intents per item.  In one run a catalog item is the target
\* of at most one policy write and of at most one pricing write.
C26_AtMostTwoIntents ==
    \A k \in 1 .. Len(catalog) :
        /\ Cardinality(PolicyEventsFor(k)) <= 1
        /\ Cardinality(PricingEventsFor(k)) <= 1

C26_Witness ==
    \E k \in 1 .. Len(catalog) :
        /\ Cardinality(PolicyEventsFor(k)) = 1
        /\ Cardinality(PricingEventsFor(k)) = 1
        /\ LoopFinished

\* the number a well-formed field holds, 0 for any other text
Coerced(raw) == IF raw.num THEN raw.v ELSE 0

\* the last row of the feed that carries the id of row k
IsLastOfItsId(k) == \A j \in (k + 1) .. Len(feedRows) : feedRows[j].id # feedRows[k].id

RECURSIVE KeyedIds(_)
KeyedIds(n) ==
    IF n = 0 THEN <<>>
    ELSE IF catalog[n].partKey # "" THEN Append(KeyedIds(n - 1), n)
    ELSE KeyedIds(n - 1)

Intents(ws) == [k \in 1 .. Len(ws) |-> <<ws[k].kind, ws[k].id>>]

IsPrefix(a, b) == Len(a) <= Len(b) /\ SubSeq(b, 1, Len(a)) = a

\* this run reconciles the feed map and the items the previous run reconciled
SameInputs ==
    /\ PhaseOf(pc) >= 3 /\ btiResponse = "ok"
    /\ hist.prev.items = shopifyVariants
    /\ hist.prev.map = btiDataMap

StockLevels == {0, 5}

WithStock(variant, q) == [variant EXCEPT !.inventoryQuantity = q]

DiffersOnlyInStock(a, b) ==
    /\ a.inventoryQuantity # b.inventoryQuantity
    /\ WithStock(a, b.inventoryQuantity) = b

\* C30: pricing is independent of local stock.  Once the pricing step of a
\* matched item has been taken, a pricing intent was issued exactly when one is
\* due for the same item at any other local stock level, and the payload in
\* flight is the one computed for it at any stock level; and in a run that
\* went through the whole loop, two matched items that differ only in local
\* stock both have a pricing intent or both have none.
C30_PricingIgnoresStock ==
    /\ (PastPricing /\ CurMatched) =>
        \A q \in StockLevels :
            /\ (PricingEventsFor(CurId) # {})
                    <=> PricingWrite(ver, WithStock(CurVariant, q), CurData)
            /\ pc = "awaitPricing" => \A w \in PricingInFlight :
                /\ w.price = NewPrice(ver, WithStock(CurVariant, q), CurData)
                /\ w.compareAtPrice
                        = NewCompareAtPrice(ver, WithStock(CurVariant, q), CurData)
                /\ w.cost = NewCost(CurData)
    /\ (pc \in {"report", "respond", "done"} /\ error = "none") =>
        \A a, b \in 1 .. Len(shopifyVariants) :
            (/\ DiffersOnlyInStock(shopifyVariants[a].node, shopifyVariants[b].node)
             /\ shopifyVariants[a].node.partKey \in DOMAIN btiDataMap) =>
                ((PricingEventsFor(shopifyVariants[a].id) = {})
                    <=> (PricingEventsFor(shopifyVariants[b].id) = {}))

\* two items that differ only in local stock, one of which got a sellability
\* intent and the other none, both with a pricing intent
C30_Witness ==
    /\ pc = "done" /\ error = "none" /\ Len(shopifyVariants) = 2
    /\ DiffersOnlyInStock(shopifyVariants[1].node, shopifyVariants[2].node)
    /\ shopifyVariants[1].node.partKey \in DOMAIN btiDataMap
    /\ Cardinality(PolicyEventsFor(1) \cup PolicyEventsFor(2)) = 1
    /\ PricingEventsFor(1) # {} /\ PricingEventsFor(2) # {}

\* the place of a catalog item in the sequence the run fetched
FetchedAt(id) == CHOOSE k \in 1 .. Len(allVariants) : allVariants[k].id = id

\* C31: write order.  The writes of a run are dispatched in the order in which
\* the catalog items were fetched: of two writes of a run, the one dispatched
\* first is for an item fetched earlier, or both are for the same item and the
\* first is the sellability write and the second the pricing write.
C31_WriteOrder ==
    \A a, b \in WriteEvents : a < b =>
        \/ FetchedAt(trace[a].id) < FetchedAt(trace[b].id)
        \/ /\ trace[a].id = trace[b].id
           /\ trace[a].kind = "policy" /\ trace[b].kind = "pricing"

C31_Witness ==
    /\ Cardinality(WriteEvents) >= 3
    /\ Cardinality({ trace[k].id : k \in WriteEvents }) = 2
    /\ \E a, b \in WriteEvents :
        a < b /\ trace[a].id = trace[b].id /\ trace[a].kind # trace[b].kind

\* the record of the last feed row that carries the key, read off the rows
LastRecord(key) ==
    LET k == CHOOSE j \in 1 .. Len(feedRows) : feedRows[j].id = key /\ IsLastOfItsId(j)
    IN [available |-> Coerced(feedRows[k].available),
        cost |-> Coerced(feedRows[k].your_price),
        msrp |-> Coerced(feedRows[k].msrp),
        present |-> TRUE]

FeedKeys == { feedRows[k].id : k \in 1 .. Len(feedRows) }

\* C32: one record per part key, the last row winning.  Once an answered feed
\* has been parsed, the feed map has exactly the part keys of the feed, each
\* with the record of the last row of that key; and the decisions taken for an
\* item joined on a key, and the payload written for it, are those of that
\* last row, for every item of the key.
C32_LastRowPerKey ==
    (btiResponse = "ok" /\ pc # "fetchFeed") =>
        /\ DOMAIN btiDataMap = FeedKeys
        /\ \A key \in FeedKeys : btiDataMap[key] = LastRecord(key)
        /\ (PastAvailability /\ CurVariant.partKey \in FeedKeys) =>
            LET rec == LastRecord(CurVariant.partKey)
            IN /\ (PolicyEventsFor(CurId) # {})
                    <=> (PolicyWrite(ver, CurVariant, rec) # "none")
               /\ \A w \in PolicyInFlight : w.policy = PolicyWrite(ver, CurVariant, rec)
               /\ PastPricing =>
                    /\ (PricingEventsFor(CurId) # {}) <=> PricingWrite(ver, CurVariant, rec)
                    /\ pc = "awaitPricing" => \A w \in PricingInFlight :
                        /\ w.price = NewPrice(ver, CurVariant, rec)
                        /\ w.cost = NewCost(rec)

\* two items of one key have been reconciled against a feed with two rows of
\* that key, on the values of the second row
C32_Witness ==
    /\ feedRows = DuplicateFeed /\ btiResponse = "ok"
    /\ pc = "awaitPricing" /\ i = 2
    /\ shopifyVariants[1].node.partKey = shopifyVariants[2].node.partKey
    /\ PolicyEventsFor(1) # {} /\ PricingEventsFor(1) # {}
    /\ \E w \in PricingInFlight : w.id = 2 /\ w.price.c = 9900

\* ----------------------------------------- claims on the product-level sync
\* the distributor's stock of a part as the feed rows give it; a part the
\* feed does not list counts as 0 (index.js:64)
FeedStock(key) == IF key \in FeedKeys THEN LastRecord(key).available ELSE 0

VariantsOf(pid) ==
    { k \in 1 .. Len(shopifyVariants) : shopifyVariants[k].node.productId = pid }

\* every fetched variant of the product is out of stock locally and in the feed
AllOutOfStock(pid) ==
    \A k \in VariantsOf(pid) :
        /\ shopifyVariants[k].node.inventoryQuantity <= 0
        /\ FeedStock(shopifyVariants[k].node.partKey) <= 0

\* the product as the run fetched it
FetchedProduct(pid) == shopifyVariants[CHOOSE k \in VariantsOf(pid) : TRUE].node

ProductEvents(pid, kind, value) ==
    { k \in WriteEvents :
        trace[k].id = pid /\ trace[k].kind = kind /\ trace[k].value = value }

\* the products whose pass of the update loop has been completed
ProductsDone ==
    { productsToUpdate[k].productId :
        k \in { n \in 1 .. Len(productsToUpdate) :
                    /\ pc \in {"execute", "nextProduct", "respond", "done"}
                    /\ (n < i \/ (n = i /\ pc = "nextProduct")) } }

\* C33: product-level sync.  A product is set to DRAFT or switched to the
\* special-order template only if every one of its fetched variants is out of
\* stock; once the pass of a product with a variant in stock is completed, a
\* product fetched as not active has been set ACTIVE and one fetched with the
\* special-order template has had it reverted; and every write changes the
\* state the product was fetched in, each at most once.
C33_ProductSync ==
    /\ \A k \in WriteEvents :
        LET e == trace[k]
            prod == FetchedProduct(e.id)
        IN /\ Cardinality(ProductEvents(e.id, e.kind, e.value)) = 1
           /\ (e.kind = "status" /\ e.value = "DRAFT") =>
                (AllOutOfStock(e.id) /\ prod.status = "ACTIVE")
           /\ (e.kind = "template" /\ e.value = SpecialOrderSuffix) =>
                (AllOutOfStock(e.id) /\ prod.templateSuffix # SpecialOrderSuffix)
           /\ (e.kind = "status" /\ e.value = "ACTIVE") =>
                (~AllOutOfStock(e.id) /\ prod.status # "ACTIVE")
           /\ (e.kind = "template" /\ e.value = NoValue) =>
                (~AllOutOfStock(e.id) /\ prod.templateSuffix = SpecialOrderSuffix)
    /\ \A pid \in ProductsDone : ~AllOutOfStock(pid) =>
        /\ FetchedProduct(pid).status # "ACTIVE"
                => ProductEvents(pid, "status", "ACTIVE") # {}
        /\ FetchedProduct(pid).templateSuffix = SpecialOrderSuffix
                => ProductEvents(pid, "template", NoValue) # {}

\* one product taken down with all its variants out of stock, another set
\* ACTIVE and reverted with a variant in stock
C33_Witness ==
    /\ ver = "index_1" /\ pc = "done" /\ response = 200
    /\ \E a, b \in {1, 2} :
        /\ a # b
        /\ ProductEvents(a, "status", "DRAFT") # {} /\ AllOutOfStock(a)
        /\ ProductEvents(b, "status", "ACTIVE") # {}
        /\ ProductEvents(b, "template", NoValue) # {}
    /\ \A k \in WriteEvents : trace[k].res = "applied"

\* ------------------------------------------------- claims on the response
\* C34: every invocation eventually sends its HTTP response, in every
\* execution, also when sending the summary or the failure notification fails;
\* and a response once sent is the only one.
C34_EventuallyResponds ==
    /\ <>(pc = "done" /\ response # 0)
    /\ [][response # 0 => response' = response]_vars

\* ---------------------------------------------------- claims on the report
\* the targets the summary lists under one kind of change
Listed(kind) ==
    LET log == IF kind = "policy" THEN changesMade.availability ELSE changesMade.pricing
    IN { log[k].id : k \in 1 .. Len(log) }

\* the targets whose write of that kind the storefront applied
AppliedIds(kind) == { trace[k].id : k \in { n \in AppliedWrites : trace[n].kind = kind } }

SummarySent == \E k \in Sent("summary") : emails[k].sent

\* C35: report faithfulness.  The changes listed in a summary handed to the
\* mail service are exactly the writes the storefront applied, for each kind
\* of change; and a run that has answered 200 after a write was applied has
\* sent a summary.
C35_ReportFaithful ==
    /\ Sent("summary") # {} =>
        \A kind \in {"policy", "pricing"} : Listed(kind) = AppliedIds(kind)
    /\ (pc = "done" /\ response = 200 /\ AppliedWrites # {}) => SummarySent

====
